---- MODULE Spec2Model ----
(***************************************************************************)
(* Campaign delivery pipeline of marketing_backend: the campaign state     *)
(* machine (CampaignsService), the scheduler (CampaignSchedulerService),   *)
(* the sender (EmailSenderService), the webhook processor (BrevoService)   *)
(* and the public unsubscribe link (UnsubscribeController).                *)
(*                                                                         *)
(* Every handler is an async function: it is cut at its awaits.  One       *)
(* action is one awaited store/provider operation together with the        *)
(* synchronous code that follows it up to the next await.  Reads of data   *)
(* no modelled operation changes (the campaign's template and csv file,    *)
(* the csv contacts) are folded into the neighbouring step.                *)
(***************************************************************************)
EXTENDS Integers, Sequences, FiniteSets, Bags, TLC

\* ------------------------------------------------------------------ bounds
NumContacts == 3      \* valid contacts of the campaign's csv file: 1..NumContacts
NumOps == 2           \* concurrent operator requests (start/schedule/pause/cancel)
MaxRuns == 2          \* sendCampaignEmails executions that may be in flight
NumHooks == 2         \* concurrent processWebhook calls
MaxDeliveries == 2    \* webhook deliveries over one behaviour
MaxRequests == 3      \* operator requests accepted over one behaviour
MaxClock == 2         \* readings of the wall clock: 1..MaxClock

\* ------------------------------------------------------- program constants
StatsBatch == 10      \* "Update stats after each batch of 10 emails"

Ops == 1..NumOps
Runs == 1..MaxRuns
Hooks == 1..NumHooks
Ticks == {1, 2}       \* the startup check and an interval tick may overlap
Clicks == {1}

\* Addresses differ in letter case only ("A" is "a" in upper case).
Addresses == {"a", "A", "b", "c"}
toLowerCase(s) == IF s = "A" THEN "a" ELSE s

\* csv_contacts rows with is_valid = true, in id order.
ContactEmail(k) == IF k = 1 THEN "A" ELSE IF k = 2 THEN "b" ELSE "c"

NULL == 0

VARIABLES
  campaign,         \* the campaigns row
  emails,           \* campaign_emails rows, in created_at order; id = index
  unsubscribes,     \* unsubscribes rows: a bag of stored email strings
  email_events,     \* email_events rows: a bag of <<campaign_email_id, event_type>>
  brevo_webhooks,   \* brevo_webhooks rows, in insertion order
  activeCampaigns,  \* EmailSenderService.activeCampaigns.get(id): "absent", "true", "false"
  provider,         \* calls made to the delivery provider: a bag of campaign_email ids
  clock,            \* new Date()
  delivered,        \* webhook deliveries received so far
  requests,         \* operator requests accepted so far
  csv_contacts,     \* number of csv_contacts rows with is_valid = true
  responses,        \* answers BrevoWebhookController.handleWebhook has returned
  rendering,        \* one call of prepareEmailContent: its inputs and its result
  ops, runs, ticks, hooks, clicks

vars == <<campaign, emails, unsubscribes, email_events, brevo_webhooks,
          activeCampaigns, provider, clock, delivered, requests, csv_contacts, responses,
          rendering, ops, runs, ticks, hooks, clicks>>

storeVars == <<campaign, emails, unsubscribes, email_events, brevo_webhooks, csv_contacts>>

\* ------------------------------------------------------------------- stats
\* A stats object; -1 stands for a key that is missing (undefined / NaN).
NullStats ==
  [total |-> -1, sent |-> -1, delivered |-> -1, opened |-> -1, clicked |-> -1,
   bounced |-> -1, failed |-> -1, unsubscribed |-> -1]

HasStats(s) == s # NullStats

Count(es, P(_)) == Cardinality({i \in DOMAIN es : P(es[i])})

IsSentLike(e) == e.status \in {"sent", "delivered", "opened", "clicked"}
IsDeliveredLike(e) == e.status \in {"delivered", "opened", "clicked"}
IsOpened(e) == e.opened_at # NULL
IsClicked(e) == e.clicked_at # NULL
IsBounced(e) == e.status = "bounced"
IsFailed(e) == e.status = "failed"
IsPending(e) == e.status = "pending"
IsUnsubStatus(e) == e.status = "unsubscribed"
\* C19 (mutant): the unsubscribed count looks at unsubscribed_at only.
IsUnsubByTimestamp(e) == e.unsubscribed_at # NULL

IsUnsub(e) == e.status = "unsubscribed" \/ e.unsubscribed_at # NULL

\* The stats object built by updateCampaignStats and by markCampaignComplete.
ComputeStats(es) ==
  [total |-> Len(es),
   sent |-> Count(es, IsSentLike),
   delivered |-> Count(es, IsDeliveredLike),
   opened |-> Count(es, IsOpened),
   clicked |-> Count(es, IsClicked),
   bounced |-> Count(es, IsBounced),
   failed |-> Count(es, IsFailed),
   unsubscribed |-> Count(es, IsUnsub)]

\* undefined + n is NaN
Plus(a, n) == IF a = -1 THEN -1 ELSE a + n

\* ----------------------------------------------------------------- records
NewEmail(k) ==
  [contact |-> k, email_address |-> ContactEmail(k), status |-> "pending",
   sent_at |-> NULL, delivered_at |-> NULL, opened_at |-> NULL, clicked_at |-> NULL,
   bounced_at |-> NULL, unsubscribed_at |-> NULL, brevo_message_id |-> NULL,
   error_message |-> "none"]

RECURSIVE ContactRows(_)
ContactRows(k) == IF k = 0 THEN <<>> ELSE Append(ContactRows(k - 1), NewEmail(k))

RECURSIVE PendingIds(_, _)
\* ids of the rows with status pending, in created_at order, among rows i..Len
PendingIds(es, i) ==
  IF i > Len(es) THEN <<>>
  ELSE IF es[i].status = "pending" THEN <<i>> \o PendingIds(es, i + 1)
  ELSE PendingIds(es, i + 1)

\* error: the exception the operation's last request was answered with
IdleOp == [pc |-> "idle", kind |-> "none", error |-> "none"]

\* throw new BadRequestException(...): the request ends, nothing is written
BadRequestException == [IdleOp EXCEPT !.error = "BadRequestException"]

\* findOne: throw new NotFoundException(...)
NotFoundException == [IdleOp EXCEPT !.error = "NotFoundException"]

IdleRun ==
  [pc |-> "idle", list |-> <<>>, idx |-> 0, currentStats |-> NullStats,
   sentCount |-> 0, failedCount |-> 0, skippedCount |-> 0,
   messageId |-> NULL, stats |-> NullStats, pending |-> 0]

IdleTick == [pc |-> "idle"]

IdleHook ==
  [pc |-> "idle", event |-> "none", messageId |-> NULL, email |-> "a", log |-> 0,
   id |-> 0, now |-> NULL, existing |-> NULL, stats |-> NullStats]

\* page: the page the last request was answered with
IdleClick ==
  [pc |-> "idle", id |-> 0, now |-> NULL, unsubscribedCount |-> 0, stats |-> NullStats,
   page |-> "none"]

\* ---------------------------------------------------------------- rendering
\* Strings are sequences of tokens: a literal piece of text or one {{name}}
\* placeholder, the name spelled as in the template.
MaxTemplateLen == 2

Text(s) == [kind |-> "text", s |-> s]
Placeholder(name) == [kind |-> "placeholder", s |-> name]

PlaceholderNames == {"firstName", "FIRSTNAME", "email", "company"}
TemplateTokens == {Text("Hi")} \cup {Placeholder(n) : n \in PlaceholderNames}
Templates == UNION {[1..n -> TemplateTokens] : n \in 0..MaxTemplateLen}

\* The 'i' flag of new RegExp(`\\{\\{${key}\\}\\}`, 'gi'): names are compared
\* without regard to letter case.
ignoreCase(name) ==
  CASE name = "firstName" -> "firstname"
    [] name = "FIRSTNAME" -> "firstname"
    [] name = "lastName" -> "lastname"
    [] name = "fullName" -> "fullname"
    [] OTHER -> name

\* The variable map: the six fixed keys, then the contact's custom fields.
FixedKeys == {"firstName", "lastName", "email", "fullName", "first_name", "last_name"}
CustomFieldSets == {{}, {"company"}}
FirstNames == {"", "Ann"}

variables(first_name, custom_fields) ==
  [key \in FixedKeys \cup custom_fields |->
     CASE key \in {"firstName", "first_name", "fullName"} -> first_name
       [] key = "email" -> "ann@x"
       [] key \in {"lastName", "last_name"} -> ""
       [] OTHER -> "Acme"]

\* The loop over Object.entries(variables): each key's regular expression
\* replaces the placeholders carrying that key's name, in any case; a
\* placeholder that no key names is matched by no expression.
replaceAll(str, vs) ==
  [i \in DOMAIN str |->
     IF /\ str[i].kind = "placeholder"
        /\ \E key \in DOMAIN vs : ignoreCase(key) = ignoreCase(str[i].s)
     THEN Text(vs[CHOOSE key \in DOMAIN vs :
                    ignoreCase(key) = ignoreCase(str[i].s)])
     ELSE str[i]]

NotRendered == <<Text("not rendered")>>
NoRendering == [template |-> <<>>, first_name |-> "", custom_fields |-> {},
                output |-> NotRendered]

\* prepareEmailContent, the replacement part, on one of the three strings.
Render ==
  /\ rendering.output = NotRendered
  /\ rendering' = [rendering EXCEPT
       !.output = replaceAll(rendering.template,
                             variables(rendering.first_name, rendering.custom_fields))]
  /\ UNCHANGED <<campaign, emails, unsubscribes, email_events, brevo_webhooks,
                 activeCampaigns, provider, clock, delivered, requests, csv_contacts,
                 responses, ops, runs, ticks, hooks, clicks>>


\* Entries the unsubscribes table may hold from earlier campaigns.
EarlierUnsubscribes == {EmptyBag, SetToBag({"A"}), SetToBag({"a"}), SetToBag({"b"})}

Init ==
  /\ campaign \in
       {[status |-> "draft", template_id |-> t, csv_file_id |-> f, subject |-> s,
         scheduled_at |-> NULL, started_at |-> NULL, completed_at |-> NULL,
         stats |-> NullStats]
          : t \in BOOLEAN, f \in BOOLEAN, s \in BOOLEAN}
  /\ emails = <<>>
  /\ unsubscribes \in EarlierUnsubscribes
  /\ email_events = EmptyBag
  /\ brevo_webhooks = <<>>
  /\ activeCampaigns = "absent"
  /\ provider = EmptyBag
  /\ clock = 1
  /\ delivered = 0
  /\ requests = 0
  /\ csv_contacts \in 1..NumContacts
  /\ responses = {}
  /\ rendering = NoRendering
  /\ ops = [o \in Ops |-> IdleOp]
  /\ runs = [r \in Runs |-> IdleRun]
  /\ ticks = [t \in Ticks |-> IdleTick]
  /\ hooks = [h \in Hooks |-> IdleHook]
  /\ clicks = [c \in Clicks |-> IdleClick]

\* ------------------------------------------------------ EmailSenderService
FreeRuns == {r \in Runs : runs[r].pc = "idle"}

\* startSending, up to the first await of sendCampaignEmails: the guard on
\* activeCampaigns, the set, and the start of the run.
startSending ==
  IF activeCampaigns = "true"
  THEN UNCHANGED <<activeCampaigns, runs>>
  ELSE /\ FreeRuns # {}
       /\ activeCampaigns' = "true"
       /\ LET r == CHOOSE x \in FreeRuns : \A y \in FreeRuns : x <= y
          IN runs' = [runs EXCEPT ![r] = [IdleRun EXCEPT !.pc = "pending"]]

\* stopSending
stopSending == activeCampaigns' = "false"


\* BrevoService.isUnsubscribed: .eq('email', email.toLowerCase()) against the
\* strings as they were stored.
isUnsubscribed(email) == BagIn(toLowerCase(email), unsubscribes)

\* C30 (mutant): the loop goes on whatever activeCampaigns holds.
LoopTopIgnoresFlag(run, i) ==
  IF i > Len(run.list)
  THEN [run EXCEPT !.idx = i, !.pc = "final_read"]
  ELSE [run EXCEPT !.idx = i, !.pc = "status"]

\* The top of the for-loop of sendCampaignEmails at element i of the list:
\* the loop ends, or the synchronous check of activeCampaigns breaks it, or
\* the status select is issued.
LoopTop(run, i) ==
  IF i > Len(run.list) \/ activeCampaigns # "true"
  THEN [run EXCEPT !.idx = i, !.pc = "final_read"]
  ELSE [run EXCEPT !.idx = i, !.pc = "status"]

\* The end of startSending: finally { activeCampaigns.delete(campaignId) }.
Finish(r) ==
  /\ activeCampaigns' = "absent"
  /\ runs' = [runs EXCEPT ![r] = IdleRun]

\* select the pending campaign_emails, ordered by created_at
RunPending(r) ==
  /\ runs[r].pc = "pending"
  /\ LET list == PendingIds(emails, 1)
     IN runs' = [runs EXCEPT ![r] =
          IF list = <<>> THEN [@ EXCEPT !.pc = "complete_read"]
          ELSE [@ EXCEPT !.pc = "curstats", !.list = list]]
  /\ UNCHANGED <<rendering, responses, storeVars, activeCampaigns, provider, clock, delivered, requests, ops, ticks, hooks, clicks>>

\* select campaigns.stats ("Get current stats"), then the top of the loop
RunCurStats(r) ==
  /\ runs[r].pc = "curstats"
  /\ LET cur == IF HasStats(campaign.stats) THEN campaign.stats
                ELSE [total |-> Len(runs[r].list), sent |-> 0, delivered |-> 0,
                      opened |-> 0, clicked |-> 0, bounced |-> 0, failed |-> 0,
                      unsubscribed |-> 0]
     IN runs' = [runs EXCEPT ![r] = LoopTop([@ EXCEPT !.currentStats = cur], 1)]
  /\ UNCHANGED <<rendering, responses, storeVars, activeCampaigns, provider, clock, delivered, requests, ops, ticks, hooks, clicks>>

\* select campaigns.status ("Check if campaign status changed")
RunStatusCheck(r) ==
  /\ runs[r].pc = "status"
  /\ runs' = [runs EXCEPT ![r].pc =
       IF campaign.status # "sending" THEN "final_read" ELSE "unsub"]
  /\ UNCHANGED <<rendering, responses, storeVars, activeCampaigns, provider, clock, delivered, requests, ops, ticks, hooks, clicks>>

\* C33 (mutant): the content is prepared whatever the subject.
prepareEmailContentWithoutSubject(c) == "content"

\* prepareEmailContent: throws when neither template.subject nor
\* campaign.subject_override is set (campaign.subject: one of them is).
prepareEmailContent(c) == IF c.subject THEN "content" ELSE "Error"

\* brevoService.isUnsubscribed(email.email_address); for a recipient that is
\* not unsubscribed prepareEmailContent follows, and its error is caught as
\* a failed send is
RunIsUnsubscribed(r) ==
  /\ runs[r].pc = "unsub"
  /\ LET id == runs[r].list[runs[r].idx]
     IN runs' = [runs EXCEPT ![r].pc =
          IF isUnsubscribed(emails[id].email_address) THEN "skip"
          ELSE IF prepareEmailContent(campaign) = "Error" THEN "mark_failed"
          ELSE "send"]
  /\ UNCHANGED <<rendering, responses, storeVars, activeCampaigns, provider, clock, delivered, requests, ops, ticks, hooks, clicks>>

\* update status 'unsubscribed' ("Email previously unsubscribed"); continue
RunSkip(r) ==
  /\ runs[r].pc = "skip"
  /\ LET id == runs[r].list[runs[r].idx]
     IN emails' = [emails EXCEPT ![id].status = "unsubscribed",
                                 ![id].error_message = "previously_unsubscribed"]
  /\ runs' = [runs EXCEPT ![r] =
       LoopTop([@ EXCEPT !.skippedCount = @ + 1], runs[r].idx + 1)]
  /\ UNCHANGED <<rendering, responses, campaign, unsubscribes, email_events, brevo_webhooks, activeCampaigns,
                 provider, clock, delivered, csv_contacts, requests, ops, ticks, hooks, clicks>>

\* A message id the provider has not returned before.
FreshMessageId == BagCardinality(provider) + 1

\* brevoService.sendTransactionalEmail: the provider answers with a message
\* id, or the call fails (success: false).
RunSend(r) ==
  /\ runs[r].pc = "send"
  /\ LET id == runs[r].list[runs[r].idx]
     IN provider' = provider (+) SetToBag({id})
  /\ \E ok \in BOOLEAN :
       runs' = [runs EXCEPT ![r] =
         IF ok THEN [@ EXCEPT !.pc = "mark_sent", !.messageId = FreshMessageId]
         ELSE [@ EXCEPT !.pc = "mark_failed"]]
  /\ UNCHANGED <<rendering, responses, storeVars, activeCampaigns, clock, delivered, requests, ops, ticks, hooks, clicks>>

\* C31 (mutant): the message id the provider returned is not stored.
RunMarkSentDropsMessageId(r) ==
  /\ runs[r].pc = "mark_sent"
  /\ LET id == runs[r].list[runs[r].idx]
     IN emails' = [emails EXCEPT ![id].status = "sent", ![id].sent_at = clock]
  /\ runs' = [runs EXCEPT ![r].pc = "ev_sent"]
  /\ UNCHANGED <<rendering, responses, campaign, unsubscribes, email_events, brevo_webhooks, activeCampaigns,
                 provider, clock, delivered, csv_contacts, requests, ops, ticks, hooks, clicks>>

\* C37 (mutant): the message id is stored and the status is left as it is.
RunMarkSentKeepsStatus(r) ==
  /\ runs[r].pc = "mark_sent"
  /\ LET id == runs[r].list[runs[r].idx]
     IN emails' = [emails EXCEPT ![id].sent_at = clock,
                                 ![id].brevo_message_id = runs[r].messageId]
  /\ runs' = [runs EXCEPT ![r].pc = "ev_sent"]
  /\ UNCHANGED <<rendering, responses, campaign, unsubscribes, email_events, brevo_webhooks, activeCampaigns,
                 provider, clock, delivered, csv_contacts, requests, ops, ticks, hooks, clicks>>

\* update status 'sent', sent_at, brevo_message_id
RunMarkSent(r) ==
  /\ runs[r].pc = "mark_sent"
  /\ LET id == runs[r].list[runs[r].idx]
     IN emails' = [emails EXCEPT ![id].status = "sent", ![id].sent_at = clock,
                                 ![id].brevo_message_id = runs[r].messageId]
  /\ runs' = [runs EXCEPT ![r].pc = "ev_sent"]
  /\ UNCHANGED <<rendering, responses, campaign, unsubscribes, email_events, brevo_webhooks, activeCampaigns,
                 provider, clock, delivered, csv_contacts, requests, ops, ticks, hooks, clicks>>

\* C28 (mutant): the failure is written and thrown out of the loop.
RunMarkFailedAborts(r) ==
  /\ runs[r].pc = "mark_failed"
  /\ LET id == runs[r].list[runs[r].idx]
     IN emails' = [emails EXCEPT ![id].status = "failed",
                                 ![id].error_message = "sending_failed"]
  /\ Finish(r)
  /\ UNCHANGED <<rendering, responses, campaign, unsubscribes, email_events, brevo_webhooks,
                 provider, clock, delivered, csv_contacts, requests, ops, ticks, hooks, clicks>>

\* update status 'failed', error_message
RunMarkFailed(r) ==
  /\ runs[r].pc = "mark_failed"
  /\ LET id == runs[r].list[runs[r].idx]
     IN emails' = [emails EXCEPT ![id].status = "failed",
                                 ![id].error_message = "sending_failed"]
  /\ runs' = [runs EXCEPT ![r].pc = "ev_failed"]
  /\ UNCHANGED <<rendering, responses, campaign, unsubscribes, email_events, brevo_webhooks, activeCampaigns,
                 provider, clock, delivered, csv_contacts, requests, ops, ticks, hooks, clicks>>

\* insert the 'sent' / 'failed' email_events row, count it
RunEvent(r) ==
  /\ runs[r].pc \in {"ev_sent", "ev_failed"}
  /\ LET id == runs[r].list[runs[r].idx]
         type == IF runs[r].pc = "ev_sent" THEN "sent" ELSE "failed"
     IN email_events' = email_events (+) SetToBag({<<id, type>>})
  /\ runs' = [runs EXCEPT ![r] =
       IF runs[r].pc = "ev_sent"
       THEN [@ EXCEPT !.pc = "sleep", !.sentCount = @ + 1]
       ELSE [@ EXCEPT !.pc = "sleep", !.failedCount = @ + 1]]
  /\ UNCHANGED <<rendering, responses, campaign, emails, unsubscribes, brevo_webhooks, activeCampaigns,
                 provider, clock, delivered, csv_contacts, requests, ops, ticks, hooks, clicks>>

\* the stats update after each batch of 10, then the 200 ms delay, then the
\* top of the loop
RunSleep(r) ==
  /\ runs[r].pc = "sleep"
  /\ LET run == runs[r]
     IN campaign' =
          IF (run.sentCount + run.failedCount + run.skippedCount) % StatsBatch = 0
          THEN [campaign EXCEPT !.stats =
                  [run.currentStats EXCEPT
                     !.sent = Plus(run.currentStats.sent, run.sentCount),
                     !.failed = Plus(run.currentStats.failed, run.failedCount),
                     !.unsubscribed = Plus(run.currentStats.unsubscribed, run.skippedCount)]]
          ELSE campaign
  /\ runs' = [runs EXCEPT ![r] = LoopTop(@, runs[r].idx + 1)]
  /\ UNCHANGED <<rendering, responses, emails, unsubscribes, email_events, brevo_webhooks, activeCampaigns,
                 provider, clock, delivered, csv_contacts, requests, ops, ticks, hooks, clicks>>

\* "Final stats update": select the status of the campaign's emails
RunFinalRead(r) ==
  /\ runs[r].pc = "final_read"
  /\ runs' = [runs EXCEPT ![r] =
       [@ EXCEPT !.pc = "final_write",
                 !.pending = Count(emails, IsPending),
                 !.stats = [runs[r].currentStats EXCEPT
                    !.total = Len(emails),
                    !.sent = Count(emails, IsSentLike),
                    !.failed = Count(emails, IsFailed),
                    !.unsubscribed = Count(emails, IsUnsubStatus)]]]
  /\ UNCHANGED <<rendering, responses, storeVars, activeCampaigns, provider, clock, delivered, requests, ops, ticks, hooks, clicks>>

\* C16 (mutant): the final stats update never goes on to markCampaignComplete.
RunFinalWriteNeverCompletes(r) ==
  /\ runs[r].pc = "final_write"
  /\ campaign' = [campaign EXCEPT !.stats = runs[r].stats]
  /\ Finish(r)
  /\ UNCHANGED <<rendering, responses, emails, unsubscribes, email_events, brevo_webhooks,
                 provider, clock, delivered, csv_contacts, requests, ops, ticks, hooks, clicks>>

\* C17 (mutant): the final stats update goes on to markCampaignComplete
\* whatever the number of pending emails.
RunFinalWriteAlwaysCompletes(r) ==
  /\ runs[r].pc = "final_write"
  /\ campaign' = [campaign EXCEPT !.stats = runs[r].stats]
  /\ runs' = [runs EXCEPT ![r].pc = "complete_read"]
  /\ UNCHANGED <<rendering, responses, emails, unsubscribes, email_events, brevo_webhooks, activeCampaigns,
                 provider, clock, delivered, csv_contacts, requests, ops, ticks, hooks, clicks>>

\* update campaigns.stats; with no pending email go on to markCampaignComplete
RunFinalWrite(r) ==
  /\ runs[r].pc = "final_write"
  /\ campaign' = [campaign EXCEPT !.stats = runs[r].stats]
  /\ IF runs[r].pending = 0
     THEN /\ runs' = [runs EXCEPT ![r].pc = "complete_read"]
          /\ UNCHANGED activeCampaigns
     ELSE Finish(r)
  /\ UNCHANGED <<rendering, responses, emails, unsubscribes, email_events, brevo_webhooks,
                 provider, clock, delivered, csv_contacts, requests, ops, ticks, hooks, clicks>>

\* markCampaignComplete: select the campaign's emails
RunCompleteRead(r) ==
  /\ runs[r].pc = "complete_read"
  /\ runs' = [runs EXCEPT ![r] = [@ EXCEPT !.pc = "complete_write",
                                           !.stats = ComputeStats(emails)]]
  /\ UNCHANGED <<rendering, responses, storeVars, activeCampaigns, provider, clock, delivered, requests, ops, ticks, hooks, clicks>>

\* markCampaignComplete: update status 'sent', completed_at, stats; the run ends
markCampaignComplete(r) ==
  /\ runs[r].pc = "complete_write"
  /\ campaign' = [campaign EXCEPT !.status = "sent", !.completed_at = clock,
                                  !.stats = runs[r].stats]
  /\ Finish(r)
  /\ UNCHANGED <<rendering, responses, emails, unsubscribes, email_events, brevo_webhooks,
                 provider, clock, delivered, csv_contacts, requests, ops, ticks, hooks, clicks>>

\* sendCampaignEmails throws on a failed select of the pending
\* campaign_emails (throw emailsError); startSending logs the error and its
\* finally block deletes the activeCampaigns entry.
RunThrow(r) ==
  /\ runs[r].pc = "pending"
  /\ Finish(r)
  /\ UNCHANGED <<rendering, responses, storeVars, provider, clock, delivered, requests, ops, ticks, hooks, clicks>>

sendCampaignEmails(r) ==
  \/ RunPending(r) \/ RunCurStats(r) \/ RunStatusCheck(r) \/ RunIsUnsubscribed(r)
  \/ RunSkip(r) \/ RunSend(r) \/ RunMarkSent(r) \/ RunMarkFailed(r) \/ RunEvent(r)
  \/ RunSleep(r) \/ RunFinalRead(r) \/ RunFinalWrite(r) \/ RunCompleteRead(r)
  \/ markCampaignComplete(r)


\* -------------------------------------------------------- CampaignsService
\* Every operation starts with findOne(id); a failed guard throws
\* BadRequestException and nothing is written.

\* start: findOne and the two guards
StartFind(o) ==
  /\ ops[o].pc = "idle"
  /\ IF campaign.status \in {"draft", "scheduled"}
        /\ campaign.template_id /\ campaign.csv_file_id
     THEN /\ requests < MaxRequests
          /\ requests' = requests + 1
          /\ ops' = [ops EXCEPT ![o] = [IdleOp EXCEPT !.pc = "count", !.kind = "start"]]
     ELSE /\ ops' = [ops EXCEPT ![o] = BadRequestException]
          /\ UNCHANGED requests
  /\ UNCHANGED <<rendering, responses, storeVars, activeCampaigns, provider, clock, delivered, runs, ticks, hooks, clicks>>

\* start: count the campaign_emails; prepare them "if not already done"
StartCount(o) ==
  /\ ops[o].pc = "count"
  /\ ops' = [ops EXCEPT ![o].pc = IF Len(emails) = 0 THEN "insert" ELSE "update"]
  /\ UNCHANGED <<rendering, responses, storeVars, activeCampaigns, provider, clock, delivered, requests, runs, ticks, hooks, clicks>>

\* schedule: findOne and the two guards; prepareCampaignEmails follows
ScheduleFind(o) ==
  /\ ops[o].pc = "idle"
  /\ IF campaign.status = "draft" /\ campaign.template_id /\ campaign.csv_file_id
     THEN /\ requests < MaxRequests
          /\ requests' = requests + 1
          /\ ops' = [ops EXCEPT ![o] = [IdleOp EXCEPT !.pc = "insert", !.kind = "schedule"]]
     ELSE /\ ops' = [ops EXCEPT ![o] = BadRequestException]
          /\ UNCHANGED requests
  /\ UNCHANGED <<rendering, responses, storeVars, activeCampaigns, provider, clock, delivered, runs, ticks, hooks, clicks>>

\* prepareCampaignEmails: one pending row per valid contact, inserted in one
\* batch (batchSize 500)
PrepareInsert(o) ==
  /\ ops[o].pc = "insert"
  /\ emails' = emails \o ContactRows(csv_contacts)
  /\ ops' = [ops EXCEPT ![o].pc = "prep_stats"]
  /\ UNCHANGED <<rendering, responses, campaign, unsubscribes, email_events, brevo_webhooks, activeCampaigns,
                 provider, clock, delivered, csv_contacts, requests, runs, ticks, hooks, clicks>>

\* prepareCampaignEmails: the stats object it writes has no 'unsubscribed' key
PrepareStats(o) ==
  /\ ops[o].pc = "prep_stats"
  /\ campaign' = [campaign EXCEPT !.stats =
       [total |-> csv_contacts, sent |-> 0, delivered |-> 0, opened |-> 0, clicked |-> 0,
        bounced |-> 0, failed |-> 0, unsubscribed |-> -1]]
  /\ ops' = [ops EXCEPT ![o].pc = "update"]
  /\ UNCHANGED <<rendering, responses, emails, unsubscribes, email_events, brevo_webhooks, activeCampaigns,
                 provider, clock, delivered, csv_contacts, requests, runs, ticks, hooks, clicks>>

\* start: update status 'sending' .eq('id', id), then scheduleNow(id), which
\* calls startSending
StartUpdate(o) ==
  /\ ops[o].pc = "update" /\ ops[o].kind = "start"
  /\ campaign' = [campaign EXCEPT !.status = "sending", !.started_at = clock]
  /\ startSending
  /\ ops' = [ops EXCEPT ![o] = IdleOp]
  /\ UNCHANGED <<rendering, responses, emails, unsubscribes, email_events, brevo_webhooks,
                 provider, clock, delivered, csv_contacts, requests, ticks, hooks, clicks>>

\* schedule: update status 'scheduled', scheduled_at .eq('id', id)
ScheduleUpdate(o) ==
  /\ ops[o].pc = "update" /\ ops[o].kind = "schedule"
  /\ \E scheduledAt \in 1..MaxClock :
       campaign' = [campaign EXCEPT !.status = "scheduled", !.scheduled_at = scheduledAt]
  /\ ops' = [ops EXCEPT ![o] = IdleOp]
  /\ UNCHANGED <<rendering, responses, emails, unsubscribes, email_events, brevo_webhooks, activeCampaigns,
                 provider, clock, delivered, csv_contacts, requests, runs, ticks, hooks, clicks>>

\* pause: findOne, the guard, then stopCampaign(id) -> stopSending(id)
PauseFind(o) ==
  /\ ops[o].pc = "idle"
  /\ IF campaign.status = "sending"
     THEN /\ requests < MaxRequests
          /\ requests' = requests + 1
          /\ stopSending
          /\ ops' = [ops EXCEPT ![o] = [IdleOp EXCEPT !.pc = "update", !.kind = "pause"]]
     ELSE /\ ops' = [ops EXCEPT ![o] = BadRequestException]
          /\ UNCHANGED <<requests, activeCampaigns>>
  /\ UNCHANGED <<rendering, responses, storeVars, provider, clock, delivered, runs, ticks, hooks, clicks>>

\* pause: update status 'paused' .eq('id', id)
PauseUpdate(o) ==
  /\ ops[o].pc = "update" /\ ops[o].kind = "pause"
  /\ campaign' = [campaign EXCEPT !.status = "paused"]
  /\ ops' = [ops EXCEPT ![o] = IdleOp]
  /\ UNCHANGED <<rendering, responses, emails, unsubscribes, email_events, brevo_webhooks, activeCampaigns,
                 provider, clock, delivered, csv_contacts, requests, runs, ticks, hooks, clicks>>

\* C11 (mutant): the guard of cancel forgets the status sent.
CancelFindForgetsSent(o) ==
  /\ ops[o].pc = "idle"
  /\ IF campaign.status # "cancelled"
     THEN /\ requests < MaxRequests
          /\ requests' = requests + 1
          /\ ops' = [ops EXCEPT ![o] = [IdleOp EXCEPT !.pc = "update", !.kind = "cancel"]]
     ELSE /\ ops' = [ops EXCEPT ![o] = BadRequestException]
          /\ UNCHANGED requests
  /\ UNCHANGED <<rendering, responses, storeVars, activeCampaigns, provider, clock, delivered, runs, ticks, hooks, clicks>>

\* cancel: findOne and the guard
CancelFind(o) ==
  /\ ops[o].pc = "idle"
  /\ IF campaign.status \notin {"sent", "cancelled"}
     THEN /\ requests < MaxRequests
          /\ requests' = requests + 1
          /\ ops' = [ops EXCEPT ![o] = [IdleOp EXCEPT !.pc = "update", !.kind = "cancel"]]
     ELSE /\ ops' = [ops EXCEPT ![o] = BadRequestException]
          /\ UNCHANGED requests
  /\ UNCHANGED <<rendering, responses, storeVars, activeCampaigns, provider, clock, delivered, runs, ticks, hooks, clicks>>

\* cancel: update status 'cancelled' .eq('id', id)
CancelUpdate(o) ==
  /\ ops[o].pc = "update" /\ ops[o].kind = "cancel"
  /\ campaign' = [campaign EXCEPT !.status = "cancelled"]
  /\ ops' = [ops EXCEPT ![o] = IdleOp]
  /\ UNCHANGED <<rendering, responses, emails, unsubscribes, email_events, brevo_webhooks, activeCampaigns,
                 provider, clock, delivered, csv_contacts, requests, runs, ticks, hooks, clicks>>

\* remove: findOne and the guard on status 'sending'
RemoveFind(o) ==
  /\ ops[o].pc = "idle"
  /\ IF campaign.status \notin {"sending", "deleted"}
     THEN /\ requests < MaxRequests
          /\ requests' = requests + 1
          /\ ops' = [ops EXCEPT ![o] = [IdleOp EXCEPT !.pc = "remove_emails", !.kind = "remove"]]
     ELSE /\ ops' = [ops EXCEPT ![o] =
               IF campaign.status = "deleted" THEN NotFoundException ELSE BadRequestException]
          /\ UNCHANGED requests
  /\ UNCHANGED <<rendering, responses, storeVars, activeCampaigns, provider, clock, delivered, runs, ticks, hooks, clicks>>

\* C35 (mutant): the delete of the campaign_emails takes their email_events
\* with it.
RemoveEmailsWithEvents(o) ==
  /\ ops[o].pc = "remove_emails"
  /\ emails' = <<>>
  /\ email_events' = EmptyBag
  /\ ops' = [ops EXCEPT ![o].pc = "remove_campaign"]
  /\ UNCHANGED <<rendering, responses, campaign, unsubscribes, brevo_webhooks, activeCampaigns,
                 provider, clock, delivered, csv_contacts, requests, runs, ticks, hooks, clicks>>

\* remove: delete the campaign_emails of the campaign
RemoveEmails(o) ==
  /\ ops[o].pc = "remove_emails"
  /\ emails' = <<>>
  /\ ops' = [ops EXCEPT ![o].pc = "remove_campaign"]
  /\ UNCHANGED <<rendering, responses, campaign, unsubscribes, email_events, brevo_webhooks, activeCampaigns,
                 provider, clock, delivered, csv_contacts, requests, runs, ticks, hooks, clicks>>

\* remove: delete the campaigns row; findOne of a later request finds none
RemoveCampaign(o) ==
  /\ ops[o].pc = "remove_campaign"
  /\ campaign' = [campaign EXCEPT !.status = "deleted"]
  /\ ops' = [ops EXCEPT ![o] = IdleOp]
  /\ UNCHANGED <<rendering, responses, emails, unsubscribes, email_events, brevo_webhooks, activeCampaigns,
                 provider, clock, delivered, csv_contacts, requests, runs, ticks, hooks, clicks>>

remove(o) == RemoveFind(o) \/ RemoveEmails(o) \/ RemoveCampaign(o)

start(o) == StartFind(o) \/ StartCount(o) \/ PrepareInsert(o) \/ PrepareStats(o) \/ StartUpdate(o)
schedule(o) == ScheduleFind(o) \/ ScheduleUpdate(o)
pause(o) == PauseFind(o) \/ PauseUpdate(o)
cancel(o) == CancelFind(o) \/ CancelUpdate(o)

\* ------------------------------------------------ CampaignSchedulerService
\* checkScheduledCampaigns: select the campaigns with status 'scheduled' and
\* scheduled_at <= now
TickQuery(t) ==
  /\ ticks[t].pc = "idle"
  /\ IF campaign.status = "scheduled" /\ campaign.scheduled_at <= clock
     THEN ticks' = [ticks EXCEPT ![t].pc = "promote"]
     ELSE UNCHANGED ticks
  /\ UNCHANGED <<rendering, responses, storeVars, activeCampaigns, provider, clock, delivered, requests, ops, runs, hooks, clicks>>

\* checkScheduledCampaigns: update status 'sending' .eq('status', 'scheduled');
\* an update that matches no row returns no error, and startSending is called
TickPromote(t) ==
  /\ ticks[t].pc = "promote"
  /\ campaign' = IF campaign.status = "scheduled"
                 THEN [campaign EXCEPT !.status = "sending", !.started_at = clock]
                 ELSE campaign
  /\ startSending
  /\ ticks' = [ticks EXCEPT ![t] = IdleTick]
  /\ UNCHANGED <<rendering, responses, emails, unsubscribes, email_events, brevo_webhooks,
                 provider, clock, delivered, csv_contacts, requests, ops, hooks, clicks>>

checkScheduledCampaigns(t) == TickQuery(t) \/ TickPromote(t)

\* the wall clock advances
AdvanceClock ==
  /\ clock < MaxClock
  /\ clock' = clock + 1
  /\ UNCHANGED <<rendering, responses, storeVars, activeCampaigns, provider, delivered, requests, ops, runs, ticks, hooks, clicks>>

\* ------------------------------------------------------------ BrevoService
\* event.event?.toLowerCase() of the events the switch of processWebhook
\* tells apart; "spam" stands for an event type without a case.
EventTypes ==
  {"delivered", "opened", "unique_opened", "click", "hard_bounce", "soft_bounce",
   "blocked", "unsubscribed", "complaint", "spam"}

\* A message id no campaign_emails row carries.
UnknownMessageId == 99

\* The provider message ids stored in campaign_emails.
StoredMessageIds == {emails[i].brevo_message_id : i \in DOMAIN emails} \ {NULL}

\* The event_type recordEvent is given by the handler of an event.
RecordedType(event) ==
  CASE event = "delivered" -> "delivered"
    [] event \in {"opened", "unique_opened"} -> "opened"
    [] event = "click" -> "clicked"
    [] event \in {"hard_bounce", "soft_bounce", "blocked"} -> "bounced"
    [] event = "unsubscribed" -> "unsubscribed"
    [] OTHER -> "complained"

\* event.email: the address the provider reports, the recipient's address in
\* the case it was sent to or in lower case; it is stored by the
\* 'unsubscribed' event only.
EventEmails(event, messageId) ==
  IF event = "unsubscribed" /\ messageId \in StoredMessageIds
  THEN UNION {{emails[i].email_address, toLowerCase(emails[i].email_address)} :
                i \in {j \in DOMAIN emails : emails[j].brevo_message_id = messageId}}
  ELSE {"a"}

\* C24 (mutant): the controller answers a rejected processWebhook with an error.
handleWebhookRethrows(outcome) ==
  [outcome |-> outcome, success |-> outcome = "resolved"]

\* BrevoWebhookController.handleWebhook: the answer to the provider when
\* processWebhook resolves (try) and when it rejects (catch).
handleWebhook(outcome) ==
  [outcome |-> outcome, success |-> TRUE]

\* C21 (mutant): an event without message-id returns before it is logged.
HookReceiveChecksIdFirst(h, types, others) ==
  /\ hooks[h].pc = "idle"
  /\ delivered < MaxDeliveries
  /\ delivered' = delivered + 1
  /\ \E event \in types, messageId \in StoredMessageIds \cup others, email \in Addresses :
       /\ email \in EventEmails(event, messageId)
       /\ brevo_webhooks' =
            IF messageId = NULL THEN brevo_webhooks
            ELSE Append(brevo_webhooks,
                   [event_type |-> event, message_id |-> messageId, processed |-> FALSE,
                    error_message |-> "none"])
       /\ hooks' = [hooks EXCEPT ![h] =
            IF messageId = NULL THEN IdleHook
            ELSE [IdleHook EXCEPT !.pc = "lookup", !.event = event, !.messageId = messageId,
                                  !.email = email, !.log = Len(brevo_webhooks) + 1]]
       /\ responses' = IF messageId = NULL THEN responses \cup {handleWebhook("resolved")}
                       ELSE responses
  /\ UNCHANGED <<rendering, campaign, emails, unsubscribes, email_events, csv_contacts, activeCampaigns,
                 provider, clock, requests, ops, runs, ticks, clicks>>

\* processWebhook: insert the brevo_webhooks row (processed: false); without
\* a message-id the call returns
HookReceive(h, types, others) ==
  /\ hooks[h].pc = "idle"
  /\ delivered < MaxDeliveries
  /\ delivered' = delivered + 1
  /\ \E event \in types, messageId \in StoredMessageIds \cup others, email \in Addresses :
       /\ email \in EventEmails(event, messageId)
       /\ brevo_webhooks' = Append(brevo_webhooks,
            [event_type |-> event, message_id |-> messageId, processed |-> FALSE,
             error_message |-> "none"])
       /\ hooks' = [hooks EXCEPT ![h] =
            IF messageId = NULL THEN IdleHook
            ELSE [IdleHook EXCEPT !.pc = "lookup", !.event = event, !.messageId = messageId,
                                  !.email = email, !.log = Len(brevo_webhooks) + 1]]
       /\ responses' = IF messageId = NULL THEN responses \cup {handleWebhook("resolved")}
                       ELSE responses
  /\ UNCHANGED <<rendering, campaign, emails, unsubscribes, email_events, csv_contacts, activeCampaigns,
                 provider, clock, requests, ops, runs, ticks, clicks>>

\* processWebhook: select the campaign_emails row by brevo_message_id; take
\* now; the switch issues the first statement of the handler
HookLookup(h) ==
  /\ hooks[h].pc = "lookup"
  /\ LET found == {i \in DOMAIN emails : emails[i].brevo_message_id = hooks[h].messageId}
         event == hooks[h].event
     IN hooks' = [hooks EXCEPT ![h] =
          IF Cardinality(found) # 1 THEN [@ EXCEPT !.pc = "unmatched"]
          ELSE [@ EXCEPT !.id = CHOOSE i \in found : TRUE, !.now = clock,
                  !.pc = IF event \in {"opened", "unique_opened", "click"} THEN "existing"
                         ELSE IF event \in {"delivered", "hard_bounce", "soft_bounce",
                                            "blocked", "unsubscribed", "complaint"}
                         THEN "update"
                         ELSE "mark"]]
  /\ UNCHANGED <<rendering, responses, storeVars, activeCampaigns, provider, clock, delivered, requests, ops, runs, ticks, clicks>>

\* processWebhook: "Mark webhook as processed with error", .eq('message_id', messageId)
HookUnmatched(h) ==
  /\ hooks[h].pc = "unmatched"
  /\ brevo_webhooks' = [n \in DOMAIN brevo_webhooks |->
       IF brevo_webhooks[n].message_id = hooks[h].messageId
       THEN [brevo_webhooks[n] EXCEPT !.processed = TRUE, !.error_message = "not_found"]
       ELSE brevo_webhooks[n]]
  /\ hooks' = [hooks EXCEPT ![h] = IdleHook]
  /\ responses' = responses \cup {handleWebhook("resolved")}
  /\ UNCHANGED <<rendering, campaign, emails, unsubscribes, email_events, csv_contacts, activeCampaigns,
                 provider, clock, delivered, requests, ops, runs, ticks, clicks>>

\* handleOpened / handleClicked: select opened_at / clicked_at of the row
HookExisting(h) ==
  /\ hooks[h].pc = "existing"
  /\ hooks' = [hooks EXCEPT ![h] =
       [@ EXCEPT !.pc = "update",
                 !.existing = IF hooks[h].event = "click"
                              THEN emails[hooks[h].id].clicked_at
                              ELSE emails[hooks[h].id].opened_at]]
  /\ UNCHANGED <<rendering, responses, storeVars, activeCampaigns, provider, clock, delivered, requests, ops, runs, ticks, clicks>>

\* The update each handler makes to the campaign_emails row.
handleDelivered(e, timestamp) ==
  [e EXCEPT !.status = "delivered", !.delivered_at = timestamp]

handleOpened(e, timestamp, existing) ==
  IF existing = NULL THEN [e EXCEPT !.status = "opened", !.opened_at = timestamp]
  ELSE [e EXCEPT !.status = "opened"]

\* C20 (mutant): a click also counts as the first open.
handleClickedMarksOpened(e, timestamp, existing) ==
  IF existing = NULL
  THEN [e EXCEPT !.status = "clicked", !.clicked_at = timestamp, !.opened_at = timestamp]
  ELSE [e EXCEPT !.status = "clicked"]

handleClicked(e, timestamp, existing) ==
  IF existing = NULL THEN [e EXCEPT !.status = "clicked", !.clicked_at = timestamp]
  ELSE [e EXCEPT !.status = "clicked"]

handleBounced(e, timestamp) ==
  [e EXCEPT !.status = "bounced", !.bounced_at = timestamp, !.error_message = "bounce"]

handleUnsubscribed(e, timestamp) ==
  [e EXCEPT !.status = "unsubscribed", !.unsubscribed_at = timestamp]

\* C32 (mutant): a complaint is stamped as a bounce is.
handleComplaintStampsBounce(e) ==
  [e EXCEPT !.status = "bounced", !.bounced_at = clock, !.error_message = "complaint"]

handleComplaint(e) ==
  [e EXCEPT !.status = "bounced", !.error_message = "complaint"]

\* C39 (mutant): the handler's update selects the rows by campaign.
HookUpdateWholeCampaign(h) ==
  /\ hooks[h].pc = "update"
  /\ LET hk == hooks[h]
         event == hk.event
     IN emails' = [i \in DOMAIN emails |->
          CASE event = "delivered" -> handleDelivered(emails[i], hk.now)
            [] event \in {"opened", "unique_opened"} -> handleOpened(emails[i], hk.now, hk.existing)
            [] event = "click" -> handleClicked(emails[i], hk.now, hk.existing)
            [] event \in {"hard_bounce", "soft_bounce", "blocked"} -> handleBounced(emails[i], hk.now)
            [] event = "unsubscribed" -> handleUnsubscribed(emails[i], hk.now)
            [] OTHER -> handleComplaint(emails[i])]
  /\ hooks' = [hooks EXCEPT ![h].pc =
       IF hooks[h].event = "unsubscribed" THEN "unsub_insert" ELSE "event"]
  /\ UNCHANGED <<rendering, responses, campaign, unsubscribes, email_events, brevo_webhooks, csv_contacts,
                 activeCampaigns, provider, clock, delivered, requests, ops, runs, ticks, clicks>>

\* the handler's update of the campaign_emails row, .eq('id', emailId)
HookUpdate(h) ==
  /\ hooks[h].pc = "update"
  /\ LET hk == hooks[h]
         e == emails[hk.id]
         event == hk.event
     IN emails' = [emails EXCEPT ![hk.id] =
          CASE event = "delivered" -> handleDelivered(e, hk.now)
            [] event \in {"opened", "unique_opened"} -> handleOpened(e, hk.now, hk.existing)
            [] event = "click" -> handleClicked(e, hk.now, hk.existing)
            [] event \in {"hard_bounce", "soft_bounce", "blocked"} -> handleBounced(e, hk.now)
            [] event = "unsubscribed" -> handleUnsubscribed(e, hk.now)
            [] OTHER -> handleComplaint(e)]
  /\ hooks' = [hooks EXCEPT ![h].pc =
       IF hooks[h].event = "unsubscribed" THEN "unsub_insert" ELSE "event"]
  /\ UNCHANGED <<rendering, responses, campaign, unsubscribes, email_events, brevo_webhooks, csv_contacts,
                 activeCampaigns, provider, clock, delivered, requests, ops, runs, ticks, clicks>>

\* C26 (mutant): the 'unsubscribed' event updates the row and stores no entry.
HookUnsubscribeStoresNothing(h) ==
  /\ hooks[h].pc = "unsub_insert"
  /\ hooks' = [hooks EXCEPT ![h].pc = "event"]
  /\ UNCHANGED <<rendering, responses, storeVars, activeCampaigns, provider, clock, delivered, requests, ops, runs, ticks, clicks>>

\* handleUnsubscribed: insert the unsubscribes row with event.email
HookUnsubscribe(h) ==
  /\ hooks[h].pc = "unsub_insert"
  /\ unsubscribes' = unsubscribes (+) SetToBag({hooks[h].email})
  /\ hooks' = [hooks EXCEPT ![h].pc = "event"]
  /\ UNCHANGED <<rendering, responses, campaign, emails, email_events, brevo_webhooks, csv_contacts,
                 activeCampaigns, provider, clock, delivered, requests, ops, runs, ticks, clicks>>

\* recordEvent: insert the email_events row
recordEvent(h) ==
  /\ hooks[h].pc = "event"
  /\ email_events' = email_events (+) SetToBag({<<hooks[h].id, RecordedType(hooks[h].event)>>})
  /\ hooks' = [hooks EXCEPT ![h].pc = "stats_read"]
  /\ UNCHANGED <<rendering, responses, campaign, emails, unsubscribes, brevo_webhooks, csv_contacts,
                 activeCampaigns, provider, clock, delivered, requests, ops, runs, ticks, clicks>>

\* updateCampaignStats: select the campaign's emails and count
HookStatsRead(h) ==
  /\ hooks[h].pc = "stats_read"
  /\ hooks' = [hooks EXCEPT ![h] = [@ EXCEPT !.pc = "stats_write", !.stats = ComputeStats(emails)]]
  /\ UNCHANGED <<rendering, responses, storeVars, activeCampaigns, provider, clock, delivered, requests, ops, runs, ticks, clicks>>

\* updateCampaignStats: update campaigns.stats
updateCampaignStats(h) ==
  /\ hooks[h].pc = "stats_write"
  /\ campaign' = [campaign EXCEPT !.stats = hooks[h].stats]
  /\ hooks' = [hooks EXCEPT ![h].pc = "mark"]
  /\ UNCHANGED <<rendering, responses, emails, unsubscribes, email_events, brevo_webhooks, csv_contacts,
                 activeCampaigns, provider, clock, delivered, requests, ops, runs, ticks, clicks>>

\* processWebhook: "Mark webhook as processed",
\* .eq('message_id', messageId).eq('event_type', eventType)
HookMark(h) ==
  /\ hooks[h].pc = "mark"
  /\ brevo_webhooks' = [n \in DOMAIN brevo_webhooks |->
       IF /\ brevo_webhooks[n].message_id = hooks[h].messageId
          /\ brevo_webhooks[n].event_type = hooks[h].event
       THEN [brevo_webhooks[n] EXCEPT !.processed = TRUE]
       ELSE brevo_webhooks[n]]
  /\ hooks' = [hooks EXCEPT ![h] = IdleHook]
  /\ responses' = responses \cup {handleWebhook("resolved")}
  /\ UNCHANGED <<rendering, campaign, emails, unsubscribes, email_events, csv_contacts, activeCampaigns,
                 provider, clock, delivered, requests, ops, runs, ticks, clicks>>

\* processWebhook rejects at one of its awaits; handleWebhook catches, logs
\* the error and answers
HookThrow(h) ==
  /\ hooks[h].pc # "idle"
  /\ hooks' = [hooks EXCEPT ![h] = IdleHook]
  /\ responses' = responses \cup {handleWebhook("rejected")}
  /\ UNCHANGED <<rendering, storeVars, activeCampaigns, provider, clock, delivered, requests, ops, runs, ticks, clicks>>

processWebhook(h, types, others) ==
  \/ HookReceive(h, types, others) \/ HookLookup(h) \/ HookUnmatched(h) \/ HookExisting(h)
  \/ HookUpdate(h) \/ HookUnsubscribe(h) \/ recordEvent(h) \/ HookStatsRead(h)
  \/ updateCampaignStats(h) \/ HookMark(h)

\* ---------------------------------------------------- UnsubscribeController
\* C25 (mutant): the link never looks at what the row already holds.
ClickReadSkipsAlreadyCheck(c) ==
  /\ clicks[c].pc = "idle"
  /\ \E id \in DOMAIN emails :
       /\ emails[id].brevo_message_id # NULL
       /\ clicks' = [clicks EXCEPT ![c] = [IdleClick EXCEPT !.pc = "update", !.id = id, !.now = clock]]
  /\ UNCHANGED <<rendering, responses, storeVars, activeCampaigns, provider, clock, delivered, requests, ops, runs, ticks, hooks>>

\* unsubscribe: select the campaign_emails row; the link is in the e-mail the
\* provider accepted.  An already unsubscribed row gets the "already" page
\* and nothing else is done; otherwise take now.
ClickRead(c) ==
  /\ clicks[c].pc = "idle"
  /\ \E id \in DOMAIN emails :
       /\ emails[id].brevo_message_id # NULL
       /\ clicks' = [clicks EXCEPT ![c] =
            IF emails[id].unsubscribed_at # NULL \/ emails[id].status = "unsubscribed"
            THEN [IdleClick EXCEPT !.id = id, !.page = "already"]
            ELSE [IdleClick EXCEPT !.pc = "update", !.id = id, !.now = clock]]
  /\ UNCHANGED <<rendering, responses, storeVars, activeCampaigns, provider, clock, delivered, requests, ops, runs, ticks, hooks>>

\* unsubscribe: update status 'unsubscribed', unsubscribed_at
ClickUpdate(c) ==
  /\ clicks[c].pc = "update"
  /\ emails' = [emails EXCEPT ![clicks[c].id].status = "unsubscribed",
                              ![clicks[c].id].unsubscribed_at = clicks[c].now]
  /\ clicks' = [clicks EXCEPT ![c].pc = "unsub_insert"]
  /\ UNCHANGED <<rendering, responses, campaign, unsubscribes, email_events, brevo_webhooks, csv_contacts,
                 activeCampaigns, provider, clock, delivered, requests, ops, runs, ticks, hooks>>

\* unsubscribe: insert the unsubscribes row with campaignEmail.email_address
ClickUnsubscribe(c) ==
  /\ clicks[c].pc = "unsub_insert"
  /\ unsubscribes' = unsubscribes (+) SetToBag({emails[clicks[c].id].email_address})
  /\ clicks' = [clicks EXCEPT ![c].pc = "event"]
  /\ UNCHANGED <<rendering, responses, campaign, emails, email_events, brevo_webhooks, csv_contacts,
                 activeCampaigns, provider, clock, delivered, requests, ops, runs, ticks, hooks>>

\* unsubscribe: insert the 'unsubscribed' email_events row
ClickEvent(c) ==
  /\ clicks[c].pc = "event"
  /\ email_events' = email_events (+) SetToBag({<<clicks[c].id, "unsubscribed">>})
  /\ clicks' = [clicks EXCEPT ![c].pc = "emails"]
  /\ UNCHANGED <<rendering, responses, campaign, emails, unsubscribes, brevo_webhooks, csv_contacts,
                 activeCampaigns, provider, clock, delivered, requests, ops, runs, ticks, hooks>>

\* unsubscribe: select the campaign's emails and count the unsubscribed
ClickEmails(c) ==
  /\ clicks[c].pc = "emails"
  /\ clicks' = [clicks EXCEPT ![c] =
       [@ EXCEPT !.pc = "stats", !.unsubscribedCount = Count(emails, IsUnsub)]]
  /\ UNCHANGED <<rendering, responses, storeVars, activeCampaigns, provider, clock, delivered, requests, ops, runs, ticks, hooks>>

\* unsubscribe: select campaigns.stats; without stats nothing is written
ClickStats(c) ==
  /\ clicks[c].pc = "stats"
  /\ clicks' = [clicks EXCEPT ![c] =
       IF HasStats(campaign.stats) THEN [@ EXCEPT !.pc = "write", !.stats = campaign.stats]
       ELSE [IdleClick EXCEPT !.id = clicks[c].id, !.page = "unsubscribed"]]
  /\ UNCHANGED <<rendering, responses, storeVars, activeCampaigns, provider, clock, delivered, requests, ops, runs, ticks, hooks>>

\* unsubscribe: update campaigns.stats with the new unsubscribed count
ClickWrite(c) ==
  /\ clicks[c].pc = "write"
  /\ campaign' = [campaign EXCEPT !.stats =
       [clicks[c].stats EXCEPT !.unsubscribed = clicks[c].unsubscribedCount]]
  /\ clicks' = [clicks EXCEPT ![c] = [IdleClick EXCEPT !.id = clicks[c].id, !.page = "unsubscribed"]]
  /\ UNCHANGED <<rendering, responses, emails, unsubscribes, email_events, brevo_webhooks, csv_contacts,
                 activeCampaigns, provider, clock, delivered, requests, ops, runs, ticks, hooks>>

unsubscribe(c) ==
  \/ ClickRead(c) \/ ClickUpdate(c) \/ ClickUnsubscribe(c) \/ ClickEvent(c)
  \/ ClickEmails(c) \/ ClickStats(c) \/ ClickWrite(c)

\* ------------------------------------------------------------ specifications
\* A csv file with one valid contact ("A"); the unsubscribes table is empty
\* or holds that address in lower case.
InitCampaign ==
  /\ Init
  /\ campaign.subject
  /\ csv_contacts = 1
  /\ unsubscribes \in {EmptyBag, SetToBag({"a"})}

\* The campaign state machine with concurrent operator requests, one
\* scheduler tick at a time, and the sender.
NextCampaign ==
  \/ \E o \in Ops : start(o) \/ schedule(o) \/ pause(o) \/ cancel(o)
  \/ \E t \in {1} : checkScheduledCampaigns(t)
  \/ \E r \in Runs : sendCampaignEmails(r)

SpecCampaign == InitCampaign /\ [][NextCampaign]_vars

\* Concurrent start requests only.
NextStart ==
  \/ \E o \in Ops : start(o)
  \/ \E r \in Runs : sendCampaignEmails(r)

SpecStart == InitCampaign /\ [][NextStart]_vars

\* One operator, overlapping scheduler ticks, the clock advancing.
NextScheduler ==
  \/ \E o \in {1} : start(o) \/ schedule(o) \/ pause(o) \/ cancel(o)
  \/ \E t \in Ticks : checkScheduledCampaigns(t)
  \/ \E r \in Runs : sendCampaignEmails(r)
  \/ AdvanceClock

SpecScheduler == InitCampaign /\ [][NextScheduler]_vars

\* One start and the sender's run over every csv file and every earlier
\* content of the unsubscribes table.
NextSender ==
  \/ \E o \in {1} : start(o)
  \/ \E r \in Runs : sendCampaignEmails(r)

SpecSender == Init /\ [][NextSender]_vars

\* The events the provider reports for an e-mail it accepted, with the
\* message id it returned for it.
EngagementEvents == {"delivered", "opened", "click", "hard_bounce", "unsubscribed"}

matchedWebhook(h) ==
  \/ HookReceive(h, EngagementEvents, {}) \/ HookLookup(h) \/ HookExisting(h)
  \/ HookUpdate(h) \/ HookUnsubscribe(h) \/ recordEvent(h) \/ HookStatsRead(h)
  \/ updateCampaignStats(h) \/ HookMark(h)

\* One campaign is started and sent; the provider's events for it are
\* processed, concurrently, while the clock advances.
NextWebhook ==
  \/ \E o \in {1} : start(o)
  \/ \E r \in Runs : sendCampaignEmails(r)
  \/ \E h \in Hooks : matchedWebhook(h)
  \/ AdvanceClock

SpecWebhook == InitCampaign /\ [][NextWebhook]_vars

\* As SpecWebhook, with the events processed one after another.
NextReplay ==
  \/ \E o \in {1} : start(o)
  \/ \E r \in Runs : sendCampaignEmails(r)
  \/ \E h \in {1} : matchedWebhook(h)
  \/ AdvanceClock

SpecReplay == InitCampaign /\ [][NextReplay]_vars

\* Every event the endpoint is sent: the events of the e-mails the provider
\* accepted, events that carry no message-id or one no row has, and an event
\* type the switch has no case for.
InboundEvents == {"click", "unsubscribed", "deferred"}

\* One campaign is started and sent; the provider's events reach the endpoint
\* one after another and a call may reject.
NextInbound ==
  \/ \E o \in {1} : start(o)
  \/ \E r \in Runs : sendCampaignEmails(r)
  \/ \E h \in {1} : processWebhook(h, InboundEvents, {NULL, UnknownMessageId}) \/ HookThrow(h)

SpecInbound == InitCampaign /\ [][NextInbound]_vars

\* The events that write the status and unsubscribed_at of an accepted e-mail.
LinkEvents == {"opened", "unsubscribed"}

\* One campaign is started and sent; the recipient follows the unsubscribe
\* link of the e-mail, one request after another, while the provider's
\* events, for it or for an e-mail no row has, are processed and the clock
\* advances.
NextUnsubscribe ==
  \/ \E o \in {1} : start(o)
  \/ \E r \in Runs : sendCampaignEmails(r)
  \/ \E h \in {1} :
       \/ HookReceive(h, LinkEvents, {UnknownMessageId}) \/ HookLookup(h)
       \/ HookUnmatched(h) \/ HookExisting(h)
       \/ HookUpdate(h) \/ HookUnsubscribe(h) \/ recordEvent(h) \/ HookStatsRead(h)
       \/ updateCampaignStats(h) \/ HookMark(h)
  \/ \E c \in Clicks : unsubscribe(c)
  \/ AdvanceClock

SpecUnsubscribe == InitCampaign /\ [][NextUnsubscribe]_vars

\* One operator starting and removing the campaign, one request after
\* another, and the sender.
NextRemove ==
  \/ \E o \in {1} : start(o) \/ remove(o)
  \/ \E r \in Runs : sendCampaignEmails(r)

SpecRemove == InitCampaign /\ [][NextRemove]_vars

\* SpecSender with a database that may fail the run's select of the pending
\* campaign_emails.
NextFault ==
  \/ \E o \in {1} : start(o)
  \/ \E r \in Runs : sendCampaignEmails(r) \/ RunThrow(r)

SpecFault == Init /\ [][NextFault]_vars

\* SpecSender with the sender's steps taken as long as one is possible: the
\* run is a chain of awaited promises, each of which settles.
SpecSenderLive ==
  Init /\ [][NextSender]_vars /\ WF_vars(\E r \in Runs : sendCampaignEmails(r))

\* A csv file with two valid contacts, a template and a csv file attached.
InitStats ==
  /\ Init
  /\ csv_contacts = 2
  /\ campaign.template_id /\ campaign.csv_file_id /\ campaign.subject
  /\ unsubscribes \in {EmptyBag, SetToBag({"b"})}

\* One operator starting and pausing the campaign, the sender, and the
\* provider's events processed one after another.
NextStats ==
  \/ \E o \in {1} : start(o) \/ pause(o)
  \/ \E r \in Runs : sendCampaignEmails(r)
  \/ \E h \in {1} : matchedWebhook(h)

SpecStats == InitStats /\ [][NextStats]_vars

\* The events that end in status bounced, with an event that reads the row
\* first, one that writes a second table and one the switch has no case for.
BounceEvents == {"hard_bounce", "soft_bounce", "blocked", "complaint"}
FrameEvents == BounceEvents \cup {"click", "unsubscribed", "deferred"}

\* A campaign with two recipients is started and sent; the endpoint receives
\* events for either e-mail, for none, and without message-id, one after
\* another.
NextFrame ==
  \/ \E o \in {1} : start(o)
  \/ \E r \in Runs : sendCampaignEmails(r)
  \/ \E h \in {1} : processWebhook(h, FrameEvents, {NULL, UnknownMessageId})

SpecFrame == InitStats /\ [][NextFrame]_vars

\* One template string and one contact, rendered once.
InitRender ==
  /\ campaign \in
       {[status |-> "sending", template_id |-> TRUE, csv_file_id |-> TRUE, subject |-> TRUE,
         scheduled_at |-> NULL, started_at |-> NULL, completed_at |-> NULL,
         stats |-> NullStats]}
  /\ emails = <<>>
  /\ unsubscribes = EmptyBag
  /\ email_events = EmptyBag
  /\ brevo_webhooks = <<>>
  /\ activeCampaigns = "absent"
  /\ provider = EmptyBag
  /\ clock = 1
  /\ delivered = 0
  /\ requests = 0
  /\ csv_contacts = 1
  /\ responses = {}
  /\ rendering \in
       {[template |-> t, first_name |-> f, custom_fields |-> c, output |-> NotRendered]
          : t \in Templates, f \in FirstNames, c \in CustomFieldSets}
  /\ ops = [o \in Ops |-> IdleOp]
  /\ runs = [r \in Runs |-> IdleRun]
  /\ ticks = [t \in Ticks |-> IdleTick]
  /\ hooks = [h \in Hooks |-> IdleHook]
  /\ clicks = [c \in Clicks |-> IdleClick]

NextRender == Render

SpecRender == InitRender /\ [][NextRender]_vars

\* ------------------------------------------------------------------- claims
ActiveRuns == {r \in Runs : runs[r].pc # "idle"}

EngagementRank(status) ==
  CASE status = "sent" -> 1
    [] status = "delivered" -> 2
    [] status = "opened" -> 3
    [] status = "clicked" -> 4
    [] OTHER -> 0

\* C1: the status of an email record never moves backward in the order
\* sent < delivered < opened < clicked.
C1_StatusNeverMovesBackward ==
  [][\A id \in DOMAIN emails :
       (EngagementRank(emails[id].status) > 0 /\ EngagementRank(emails'[id].status) > 0)
         => EngagementRank(emails'[id].status) >= EngagementRank(emails[id].status)]_vars

\* C2: failed, bounced and unsubscribed are absorbing: a record that has one
\* of these statuses keeps it.
C2_TerminalStatusesAbsorbing ==
  [][\A id \in DOMAIN emails :
       emails[id].status \in {"failed", "bounced", "unsubscribed"}
         => emails'[id].status = emails[id].status]_vars

\* C3: sent_at, opened_at, clicked_at, bounced_at and unsubscribed_at are
\* written at most once: a non-null value never changes.
C3_TimestampsWrittenOnce ==
  [][\A id \in DOMAIN emails :
       /\ emails[id].sent_at # NULL => emails'[id].sent_at = emails[id].sent_at
       /\ emails[id].opened_at # NULL => emails'[id].opened_at = emails[id].opened_at
       /\ emails[id].clicked_at # NULL => emails'[id].clicked_at = emails[id].clicked_at
       /\ emails[id].bounced_at # NULL => emails'[id].bounced_at = emails[id].bounced_at
       /\ emails[id].unsubscribed_at # NULL
            => emails'[id].unsubscribed_at = emails[id].unsubscribed_at]_vars

\* The delivery hook h is processing repeats the delivery logged just before
\* it: the same event for the same message id.
IsReplay(h) ==
  LET n == hooks[h].log
  IN /\ n >= 2
     /\ brevo_webhooks[n - 1].event_type = brevo_webhooks[n].event_type
     /\ brevo_webhooks[n - 1].message_id = brevo_webhooks[n].message_id

\* C4: processing the same event a second time, right after the first, leaves
\* the record as the first left it, and each delivery appends one EmailEvent.
C4_ReplayLeavesRecordUnchanged ==
  [][\A h \in Hooks :
       /\ (hooks[h].pc = "update" /\ hooks'[h].pc # "update" /\ IsReplay(h))
            => emails'[hooks[h].id] = emails[hooks[h].id]
       /\ (hooks[h].pc = "event" /\ hooks'[h].pc # "event")
            => BagCardinality(email_events') = BagCardinality(email_events) + 1]_vars

\* C5: with deliveries of the same opened (clicked) event processed
\* concurrently, opened_at (clicked_at) keeps the value stored first.
C5_FirstOpenFirstClickGuarded ==
  [][\A id \in DOMAIN emails :
       /\ emails[id].opened_at # NULL => emails'[id].opened_at = emails[id].opened_at
       /\ emails[id].clicked_at # NULL => emails'[id].clicked_at = emails[id].clicked_at]_vars

\* The unsubscribes table holds the address, in whatever letter case.
HasUnsubscribeEntry(address) ==
  \E stored \in BagToSet(unsubscribes) : toLowerCase(stored) = toLowerCase(address)

\* C6: an address with an UnsubscribeEntry is never passed to the provider,
\* and once the campaign is sent its record is unsubscribed with sent_at null.
C6_UnsubscribedNeverSent ==
  /\ [][\A r \in Runs :
          (runs[r].pc = "send" /\ runs'[r].pc # "send")
            => ~HasUnsubscribeEntry(emails[runs[r].list[runs[r].idx]].email_address)]_vars
  /\ [](campaign.status = "sent" =>
          \A id \in DOMAIN emails :
            HasUnsubscribeEntry(emails[id].email_address)
              => emails[id].status = "unsubscribed" /\ emails[id].sent_at = NULL)

\* C7: at most one run of sendCampaignEmails is active for the campaign.
C7_AtMostOneSenderRun == Cardinality(ActiveRuns) <= 1

\* C8: concurrent start calls on the draft campaign give one sender run and
\* one EmailRecord per valid recipient.
C8_ConcurrentStartMaterializesOnce ==
  /\ Cardinality(ActiveRuns) <= 1
  /\ \A k \in 1..csv_contacts :
       Cardinality({id \in DOMAIN emails : emails[id].contact = k}) <= 1

\* C9: a scheduler tick whose conditional update finds the campaign no longer
\* scheduled changes nothing and starts no sender.
C9_LosingRacerIsNoOp ==
  [][\A t \in Ticks :
       (ticks[t].pc = "promote" /\ ticks'[t].pc = "idle" /\ campaign.status # "scheduled")
         => UNCHANGED <<campaign, activeCampaigns, runs>>]_vars

\* C10: the campaign statuses sent and cancelled are terminal.
C10_SentCancelledTerminal ==
  [][campaign.status \in {"sent", "cancelled"}
       => campaign'.status = campaign.status]_vars

\* The status guard of each operation, as the operations are specified.
StatusGuard(kind) ==
  CASE kind = "schedule" -> campaign.status = "draft"
    [] kind = "start" -> campaign.status \in {"draft", "scheduled"}
    [] kind = "pause" -> campaign.status = "sending"
    [] kind = "cancel" -> campaign.status \notin {"sent", "cancelled"}
    [] OTHER -> TRUE

\* A template and a recipient source are attached.
HasTemplateAndRecipients == campaign.template_id /\ campaign.csv_file_id

\* C11: an operation whose guard fails is rejected with an error and writes
\* nothing: the campaign, its records and the sender are as they were.
C11_FailedGuardRejects ==
  [][\A o \in Ops :
       (\/ ScheduleFind(o) /\ ~(StatusGuard("schedule") /\ HasTemplateAndRecipients)
        \/ StartFind(o) /\ ~(StatusGuard("start") /\ HasTemplateAndRecipients)
        \/ PauseFind(o) /\ ~StatusGuard("pause")
        \/ CancelFind(o) /\ ~StatusGuard("cancel"))
         => /\ ops'[o].error = "BadRequestException"
            /\ ops'[o].pc = "idle"
            /\ UNCHANGED <<campaign, emails, activeCampaigns, runs>>]_vars

\* C11 (witness): a request was rejected and the campaign is sent.
C11_Witness ==
  \E o \in Ops : ops[o].error = "BadRequestException" /\ campaign.status = "sent"

\* C12: the status write of schedule, start, pause and cancel has no effect
\* when the status no longer passes the operation's guard at write time.
C12_StatusWritesConditional ==
  [][\A o \in Ops :
       (ops[o].pc = "update" /\ ops'[o].pc = "idle" /\ ~StatusGuard(ops[o].kind))
         => campaign'.status = campaign.status]_vars

\* C13: while the campaign is cancelled no pending record is passed to the
\* provider, and the write of cancel changes no record.
C13_CancelledNeverSends ==
  [][/\ \A r \in Runs :
          (campaign.status = "cancelled" /\ runs[r].pc = "send" /\ runs'[r].pc # "send")
            => emails[runs[r].list[runs[r].idx]].status # "pending"
     /\ \A o \in Ops :
          (ops[o].kind = "cancel" /\ ops[o].pc = "update" /\ ops'[o].pc = "idle")
            => emails' = emails]_vars

\* C14: once pause has completed (the status is paused), the records that are
\* pending stay pending: the sender sends none and fails none.
C14_PausedKeepsPending ==
  [][campaign.status = "paused"
       => \A id \in DOMAIN emails :
            emails[id].status = "pending" => emails'[id].status = "pending"]_vars

\* C15: start on a paused campaign, with template and recipients, is accepted.
C15_PausedCampaignRestarts ==
  [][\A o \in Ops :
       (StartFind(o) /\ campaign.status = "paused" /\ HasTemplateAndRecipients)
         => (ops'[o].kind = "start" /\ ops'[o].error = "none")]_vars

\* No recipient of the csv file has an entry in the unsubscribes table.
NoUnsubscribedRecipient ==
  \A k \in 1..csv_contacts : ~HasUnsubscribeEntry(ContactEmail(k))

Quiescent ==
  /\ ActiveRuns = {}
  /\ \A o \in Ops : ops[o].pc = "idle"
  /\ \A h \in Hooks : hooks[h].pc = "idle"
  /\ \A c \in Clicks : clicks[c].pc = "idle"

\* C18: with nothing in progress and the records materialized, the stats
\* snapshot equals the counts recomputed from the records.
C18_StatsMatchRecords ==
  (Quiescent /\ Len(emails) > 0) => campaign.stats = ComputeStats(emails)

\* The counts of C19: one record unsubscribed, two sent, and the snapshot.
ThreeRecipientsCounts ==
  /\ Count(emails, IsUnsubStatus) = 1
  /\ Cardinality({id \in DOMAIN emails : emails[id].status = "sent"}) = 2
  /\ campaign.stats.total = 3
  /\ campaign.stats.sent = 2
  /\ campaign.stats.unsubscribed = 1

C20_ClickWithoutOpen ==
  [][\A h \in Hooks :
       (/\ hooks[h].pc = "update" /\ hooks'[h].pc # "update"
        /\ hooks[h].event = "click" /\ emails[hooks[h].id].opened_at = NULL)
         => LET e == emails'[hooks[h].id]
            IN e.status = "clicked" /\ e.clicked_at # NULL /\ e.opened_at = NULL]_vars

\* C20 (witness): a record is clicked, with clicked_at set and opened_at null.
C20_Witness ==
  \E id \in DOMAIN emails :
    /\ emails[id].status = "clicked"
    /\ emails[id].clicked_at # NULL
    /\ emails[id].opened_at = NULL


\* C21: every event the endpoint receives, matched or not and with or without
\* a message-id, gets a brevo_webhooks row with processed false, in the first
\* step of processWebhook: before the lookup and with no campaign_emails,
\* email_events, unsubscribes or stats write.
C21_LoggedBeforeAnythingElse ==
  [][/\ delivered' # delivered =>
          /\ Len(brevo_webhooks') = Len(brevo_webhooks) + 1
          /\ ~brevo_webhooks'[Len(brevo_webhooks')].processed
          /\ \A n \in DOMAIN brevo_webhooks : brevo_webhooks'[n] = brevo_webhooks[n]
          /\ UNCHANGED <<campaign, emails, email_events, unsubscribes>>
     /\ \A h \in Hooks :
          (hooks[h].pc = "idle" /\ hooks'[h].pc # "idle") =>
             /\ hooks'[h].pc = "lookup"
             /\ hooks'[h].log = Len(brevo_webhooks')
             /\ brevo_webhooks'[hooks'[h].log].message_id = hooks'[h].messageId
             /\ ~brevo_webhooks'[hooks'[h].log].processed]_vars

\* C21 (witness): an event without message-id and an event with a message-id
\* no row has are both in the log.
C21_Witness ==
  /\ \E n \in DOMAIN brevo_webhooks : brevo_webhooks[n].message_id = NULL
  /\ \E n \in DOMAIN brevo_webhooks : brevo_webhooks[n].message_id = UnknownMessageId

\* C22: when processWebhook returns, the row it inserted is processed: with a
\* note after an event that was not resolved (an event without message-id
\* included), without a note after a matched event.
C22_ReturnLeavesEntryProcessed ==
  [][\A h \in Hooks :
       /\ HookUnmatched(h) =>
            LET row == brevo_webhooks'[hooks[h].log]
            IN row.processed /\ row.error_message # "none"
       /\ HookMark(h) =>
            LET row == brevo_webhooks'[hooks[h].log]
            IN row.processed /\ row.error_message = "none"
       /\ (delivered' # delivered /\ hooks' = hooks) =>
            LET row == brevo_webhooks'[Len(brevo_webhooks')]
            IN row.processed /\ row.error_message # "none"]_vars

\* C23: the row of a matched event is set to processed by the call that
\* inserted it, in its last step, after its email_events insert and its
\* stats update.
C23_ProcessedAfterOwnEventAndStats ==
  [][\A n \in DOMAIN brevo_webhooks :
       (~brevo_webhooks[n].processed /\ brevo_webhooks'[n].processed) =>
          \E h \in Hooks :
            hooks[h].pc = "mark" /\ hooks[h].log = n /\ hooks'[h].pc = "idle"]_vars

\* C24: every answer of the webhook endpoint is a success, the answer to a
\* processWebhook call that rejected included.
C24_EndpointAlwaysAnswersSuccess ==
  \A answer \in responses : answer.success

\* C24 (witness): the endpoint has answered a call that rejected.
C24_Witness ==
  \E answer \in responses : answer.outcome = "rejected" /\ answer.success

\* C25: a request for the id the link has served before is answered with the
\* already-unsubscribed page and writes nothing, whatever events were
\* processed since.
C25_SecondClickChangesNothing ==
  [][\A c \in Clicks :
       (/\ clicks[c].pc = "idle" /\ clicks[c].page = "unsubscribed"
        /\ clicks'[c] # clicks[c] /\ clicks'[c].id = clicks[c].id)
         => /\ clicks'[c].pc = "idle"
            /\ clicks'[c].page = "already"
            /\ UNCHANGED storeVars]_vars

\* C25 (witness): the second request was answered with the already page
\* after an 'opened' event had moved the record's status on, at a later time
\* than the first.
C25_Witness ==
  \E c \in Clicks :
    /\ clicks[c].pc = "idle" /\ clicks[c].page = "already"
    /\ emails[clicks[c].id].status = "opened"
    /\ emails[clicks[c].id].unsubscribed_at < clock
    /\ CopiesIn(<<clicks[c].id, "unsubscribed">>, email_events) = 1
    /\ BagCardinality(unsubscribes) = 1

\* The unsubscribes table holds every entry it held, and what a step adds.
UnsubscribesGrowBy(added) ==
  \A a \in Addresses :
    CopiesIn(a, unsubscribes') =
      CopiesIn(a, unsubscribes) + (IF a \in added THEN 1 ELSE 0)

\* C26 (as stated): every processed 'unsubscribed' event has an entry in the
\* unsubscribes table.
C26_EveryUnsubscribedEventStored ==
  Cardinality({n \in DOMAIN brevo_webhooks :
                 brevo_webhooks[n].event_type = "unsubscribed" /\ brevo_webhooks[n].processed})
    <= BagCardinality(unsubscribes)

\* C26: an 'unsubscribed' event matched to a campaign_emails row and a first
\* click of the link each add one entry with the recipient's address, and no
\* step takes an entry away.
C26_MatchedEventAndFirstClickStored ==
  [][/\ \A h \in Hooks :
          (hooks[h].event = "unsubscribed" /\ hooks[h].pc = "update" /\ hooks'[h] # hooks[h]) =>
             hooks'[h].pc = "unsub_insert"
     /\ \A h \in Hooks :
          (hooks[h].pc = "unsub_insert" /\ hooks'[h] # hooks[h]) =>
             UnsubscribesGrowBy({hooks[h].email})
     /\ \A c \in Clicks :
          (clicks[c].pc = "update" /\ clicks'[c] # clicks[c]) => clicks'[c].pc = "unsub_insert"
     /\ \A c \in Clicks :
          (clicks[c].pc = "unsub_insert" /\ clicks'[c] # clicks[c]) =>
             UnsubscribesGrowBy({emails[clicks[c].id].email_address})
     /\ \A a \in Addresses : CopiesIn(a, unsubscribes') >= CopiesIn(a, unsubscribes)]_vars

\* C26 (witness): the table holds the entry of an 'unsubscribed' event and
\* the entry of a click.
C26_Witness ==
  /\ BagCardinality(unsubscribes) >= 2
  /\ \E n \in DOMAIN brevo_webhooks :
       brevo_webhooks[n].event_type = "unsubscribed" /\ brevo_webhooks[n].processed
  /\ \E c \in Clicks : clicks[c].page = "unsubscribed"

\* C27: schedule creates no campaign_emails row for a campaign that has rows.
C27_ScheduleMaterializesOnce ==
  [][\A o \in Ops :
       (/\ ops[o].kind = "schedule" /\ ops[o].pc = "insert" /\ ops'[o] # ops[o]
        /\ Len(emails) > 0)
         => emails' = emails]_vars

\* C28: a failed provider call does not end the run: the row is set to failed
\* with the error's message, one 'failed' email_events row is inserted, and
\* the loop goes on to the next element of the list.
C28_FailureDoesNotAbortRun ==
  [][\A r \in Runs :
       LET id == runs[r].list[runs[r].idx]
       IN /\ (runs[r].pc = "mark_failed" /\ runs'[r] # runs[r]) =>
               /\ emails'[id].status = "failed"
               /\ emails'[id].error_message = "sending_failed"
               /\ runs'[r].pc = "ev_failed"
          /\ (runs[r].pc = "ev_failed" /\ runs'[r] # runs[r]) =>
               /\ CopiesIn(<<id, "failed">>, email_events') = 1
               /\ runs'[r].pc = "sleep"
          /\ (/\ runs[r].pc = "sleep" /\ runs'[r] # runs[r]
              /\ emails[id].status = "failed"
              /\ runs[r].idx < Len(runs[r].list) /\ activeCampaigns = "true") =>
               /\ runs'[r].pc = "status"
               /\ runs'[r].idx = runs[r].idx + 1]_vars

\* C28 (witness): the first e-mail failed, with its one 'failed' event, and
\* a later e-mail of the same run was sent.
C28_Witness ==
  /\ Len(emails) >= 2
  /\ emails[1].status = "failed"
  /\ CopiesIn(<<1, "failed">>, email_events) = 1
  /\ \E id \in DOMAIN emails : id > 1 /\ emails[id].status = "sent"

\* C29: no campaign_emails row is passed to the provider twice.
C29_SentAtMostOnce ==
  \A id \in DOMAIN emails : CopiesIn(id, provider) <= 1

\* The steps of sendCampaignEmails after its loop.
AfterLoop == {"final_read", "final_write", "complete_read", "complete_write"}

\* C30: the provider is called only in an iteration that found
\* activeCampaigns set and read status 'sending'; a failed check ends the
\* loop, and after the loop no row is written and the provider is not called.
C30_ChecksPrecedeEverySend ==
  [][\A r \in Runs :
       LET run == runs[r]
           stepped == runs'[r] # run
           iterates == run.pc \in {"curstats", "skip", "sleep"} /\ stepped
       IN /\ (stepped /\ runs'[r].pc = "send") =>
               run.pc = "unsub" /\ runs'[r].idx = run.idx
          /\ (stepped /\ runs'[r].pc = "unsub") =>
               run.pc = "status" /\ campaign.status = "sending" /\ runs'[r].idx = run.idx
          /\ (stepped /\ runs'[r].pc = "status") =>
               iterates /\ activeCampaigns = "true"
          /\ (iterates /\ activeCampaigns # "true") => runs'[r].pc = "final_read"
          /\ (run.pc = "status" /\ stepped /\ campaign.status # "sending") =>
               runs'[r].pc = "final_read"
          /\ (run.pc \in AfterLoop /\ stepped) =>
               /\ runs'[r].pc \in AfterLoop \cup {"idle"}
               /\ UNCHANGED <<emails, provider>>]_vars

\* C30 (witness): a run was stopped with an e-mail of its list still pending:
\* the campaign is paused and the run is past its loop.
C30_Witness ==
  \E r \in Runs :
    /\ runs[r].pc \in AfterLoop
    /\ campaign.status = "paused"
    /\ runs[r].idx <= Len(runs[r].list)
    /\ emails[runs[r].list[runs[r].idx]].status = "pending"


\* C31: after a provider call that succeeded the row is set to sent with
\* sent_at and the message id the call returned, and one 'sent' email_events
\* row is inserted for it.
C31_SuccessIsRecorded ==
  [][\A r \in Runs :
       LET id == runs[r].list[runs[r].idx]
       IN /\ (runs[r].pc = "mark_sent" /\ runs'[r] # runs[r]) =>
               /\ runs[r].messageId # NULL
               /\ emails'[id].status = "sent"
               /\ emails'[id].sent_at # NULL
               /\ emails'[id].brevo_message_id = runs[r].messageId
               /\ runs'[r].pc = "ev_sent"
          /\ (runs[r].pc = "ev_sent" /\ runs'[r] # runs[r]) =>
               /\ CopiesIn(<<id, "sent">>, email_events') = 1
               /\ CopiesIn(<<id, "failed">>, email_events') = 0]_vars

\* C31 (witness): two e-mails were sent, each with its own message id and its
\* one 'sent' event.
C31_Witness ==
  /\ Len(emails) >= 2
  /\ \A id \in {1, 2} :
       /\ emails[id].status = "sent" /\ emails[id].sent_at # NULL
       /\ CopiesIn(<<id, "sent">>, email_events) = 1
  /\ emails[1].brevo_message_id # NULL
  /\ emails[2].brevo_message_id \notin {NULL, emails[1].brevo_message_id}

\* C33: with no subject from the template or the campaign the provider is
\* never called.
C33_NoSubjectNoProviderCall ==
  ~campaign.subject => provider = EmptyBag

\* C33 (witness): a run without a subject has ended, with two or more
\* recipients that are not unsubscribed, every one of them failed.
C33_Witness ==
  /\ ~campaign.subject /\ campaign.status = "sent"
  /\ Len(emails) >= 2 /\ NoUnsubscribedRecipient
  /\ \A id \in DOMAIN emails : emails[id].status = "failed"

\* C36: while the campaign is sending a sender run for it is active.
C36_SendingHasActiveRun ==
  campaign.status = "sending" => ActiveRuns # {}

\* C37: a row with a message id has sent_at and is not pending; a pending
\* row has no message id and no sent_at.
C37_MessageIdOnlyOnSentRecords ==
  \A id \in DOMAIN emails :
    /\ emails[id].brevo_message_id # NULL =>
         emails[id].sent_at # NULL /\ emails[id].status # "pending"
    /\ emails[id].status = "pending" =>
         emails[id].brevo_message_id = NULL /\ emails[id].sent_at = NULL

\* C37 (witness): an event was matched to a row by its message id and has
\* moved its status on.
C37_Witness ==
  \E id \in DOMAIN emails :
    /\ emails[id].brevo_message_id # NULL
    /\ emails[id].status = "opened"
    /\ CopiesIn(<<id, "opened">>, email_events) >= 1


\* C32: hard_bounce, soft_bounce and blocked set the matched row to bounced
\* with bounced_at and a reason; complaint sets it to bounced with its fixed
\* reason and leaves bounced_at as it is.
C32_BouncesAndComplaints ==
  [][\A h \in Hooks :
       (hooks[h].pc = "update" /\ hooks'[h] # hooks[h]) =>
          LET before == emails[hooks[h].id]
              after == emails'[hooks[h].id]
          IN /\ hooks[h].event \in {"hard_bounce", "soft_bounce", "blocked"} =>
                  /\ after.status = "bounced"
                  /\ after.error_message = "bounce"
                  /\ after.bounced_at = hooks[h].now
             /\ hooks[h].event = "complaint" =>
                  /\ after.status = "bounced"
                  /\ after.error_message = "complaint"
                  /\ after.bounced_at = before.bounced_at]_vars

\* C32 (witness): one e-mail bounced and the other was complained about,
\* with no bounced_at.
C32_Witness ==
  /\ \E id \in DOMAIN emails :
       /\ emails[id].status = "bounced" /\ emails[id].error_message = "bounce"
       /\ emails[id].bounced_at # NULL
  /\ \E id \in DOMAIN emails :
       /\ emails[id].status = "bounced" /\ emails[id].error_message = "complaint"
       /\ emails[id].bounced_at = NULL

\* The stats snapshot is consistent with a partition of the rows.
StatsConsistent(s) ==
  /\ s.delivered <= s.sent
  /\ s.sent <= s.total
  /\ s.sent + s.failed + s.bounced + s.unsubscribed <= s.total

\* C38: every snapshot updateCampaignStats or markCampaignComplete is about
\* to write is consistent.
C38_WrittenStatsConsistent ==
  /\ \A h \in Hooks : hooks[h].pc = "stats_write" => StatsConsistent(hooks[h].stats)
  /\ \A r \in Runs : runs[r].pc = "complete_write" => StatsConsistent(runs[r].stats)

\* The event types the switch of processWebhook has a case for.
DispatchedEvents ==
  {"delivered", "opened", "unique_opened", "click", "hard_bounce", "soft_bounce",
   "blocked", "unsubscribed", "complaint"}

\* C39: a step of processWebhook leaves every campaign_emails row but the
\* matched one as it is, inserts email_events rows for the matched row only
\* and writes no field of the campaign but its stats; an event without a
\* case in the switch, an unmatched event and an event without message-id
\* write no campaign_emails row and insert no email_events row.
C39_OnlyTheMatchedRecordChanges ==
  [][\A h \in Hooks :
       (hooks'[h] # hooks[h] \/ (delivered' # delivered /\ hooks' = hooks)) =>
          /\ [campaign' EXCEPT !.stats = campaign.stats] = campaign
          /\ DOMAIN emails' = DOMAIN emails
          /\ \A id \in DOMAIN emails : id # hooks[h].id => emails'[id] = emails[id]
          /\ \A x \in BagToSet(email_events') :
               CopiesIn(x, email_events') # CopiesIn(x, email_events) => x[1] = hooks[h].id
          /\ (hooks[h].event \notin DispatchedEvents \/ hooks[h].id = 0) =>
               emails' = emails /\ email_events' = email_events]_vars

\* C39 (witness): events were applied to the first e-mail while the second
\* is as the sender left it, and an event without a case in the switch was
\* processed for a stored message id.
C39_Witness ==
  /\ Len(emails) = 2
  /\ emails[1].status = "bounced" /\ CopiesIn(<<1, "bounced">>, email_events) >= 1
  /\ emails[2].status = "sent" /\ emails[2].bounced_at = NULL
  /\ \A x \in BagToSet(email_events) : x[1] = 2 => x[2] = "sent"
  /\ \E n \in DOMAIN brevo_webhooks :
       /\ brevo_webhooks[n].event_type = "deferred" /\ brevo_webhooks[n].processed
       /\ brevo_webhooks[n].message_id \in StoredMessageIds

\* C40: while a processWebhook call is in progress, the row it inserted is
\* not processed.
C40_EntryOpenWhileInProgress ==
  \A h \in Hooks :
    hooks[h].pc # "idle" => ~brevo_webhooks[hooks[h].log].processed


C34_NoPlaceholderLeft ==
  rendering.output # NotRendered
    => \A i \in DOMAIN rendering.output : rendering.output[i].kind # "placeholder"

====
